---- MODULE Spec2Model ----
(***************************************************************************)
(* Model of the raffle bot: RaffleState, the per-broadcaster store and the *)
(* chat command handlers of RaffleComponent (src/raffle.py), the raffles   *)
(* table they persist to, and the process restart that reloads it          *)
(* (src/bot.py, setup_hook).                                               *)
(*                                                                         *)
(* Python values are modelled as follows.                                  *)
(*   - user and broadcaster ids are naturals (the code uses id strings);   *)
(*   - a dict is the sequence of its items in insertion order;             *)
(*   - None is the sentinel string None; the falsy strings are None and "";*)
(*   - a chat message is a record of its literal text and of the values    *)
(*     formatted into it.                                                  *)
(***************************************************************************)
EXTENDS FiniteSets, Integers, Sequences, TLC

\* ------------------------------------------------------------------------
\* Bounds of the model.

\* Chatters other than the bot have ids 1..NumUsers.
NumUsers == 2

\* At most this many persistence calls raise an error in one behaviour.
MaxDbFailures == 1

\* At most this many draw handlers are suspended at a time.
MaxTasks == 2

\* At most this many raffles are started in one behaviour of interleaved
\* handlers.
MaxRaffles == 2

\* ------------------------------------------------------------------------
\* Values.

\* TWITCH_BOT_ID, the bot's own user id.
BOT_ID == 0

UserIds == 0 .. NumUsers

\* The channels (broadcaster ids) of the model.
Broadcasters == {1, 2}

\* The channel of the behaviours that follow one channel.
OneChannel == {1}

None == "None"

Truthy(v) == v # None /\ v # ""

\* A chatter's login name: never empty.
LoginName(u) == "user" \o ToString(u)

\* The display names a chatter may carry: none, or a chosen one.
DisplayNames(u) == {None, "Disp" \o ToString(u)}

\* The display name a chatter carries when it does not change its name:
\* chatters with an odd id have chosen one, the others have none.
DisplayName(u) == IF u % 2 = 1 THEN "Disp" \o ToString(u) ELSE None

Flags(vip, subscriber, moderator, broadcaster) ==
    [vip |-> vip, subscriber |-> subscriber,
     moderator |-> moderator, broadcaster |-> broadcaster]

\* The role flags a chatter may carry: none, each one alone, and all four.
RoleFlags ==
    {Flags(FALSE, FALSE, FALSE, FALSE), Flags(TRUE, FALSE, FALSE, FALSE),
     Flags(FALSE, TRUE, FALSE, FALSE), Flags(FALSE, FALSE, TRUE, FALSE),
     Flags(FALSE, FALSE, FALSE, TRUE), Flags(TRUE, TRUE, TRUE, TRUE)}

Chatter(u, dn, f) ==
    [id |-> u, name |-> LoginName(u), display_name |-> dn,
     vip |-> f.vip, subscriber |-> f.subscriber,
     moderator |-> f.moderator, broadcaster |-> f.broadcaster]

\* The chatters the framework can deliver, with a display name that may change.
RenamingChatters ==
    UNION {{Chatter(u, dn, f) : dn \in DisplayNames(u), f \in RoleFlags} : u \in UserIds}

\* The chatters the framework can deliver, each with its one display name.
Chatters == {Chatter(u, DisplayName(u), f) : u \in UserIds, f \in RoleFlags}

\* The invocation context of a command: the caller and the channel.
Context(c, b) == [chatter |-> c, broadcaster |-> [id |-> b]]

\* Every context of the model.
Contexts == {Context(c, b) : c \in RenamingChatters, b \in Broadcasters}

\* The contexts of the handlers that read only the caller's role flags.
RoleContexts(bs) ==
    {Context(Chatter(1, DisplayName(1), f), b) : f \in RoleFlags, b \in bs}

\* ------------------------------------------------------------------------
\* Python dict, as the sequence of its items <<key, value>>.

DictKeys(d) == {d[i][1] : i \in DOMAIN d}

DictGet(d, k, default) ==
    IF k \in DictKeys(d)
    THEN d[CHOOSE i \in DOMAIN d : d[i][1] = k][2]
    ELSE default

\* d[k] = v: an existing key keeps its position, a new key goes last.
DictSet(d, k, v) ==
    IF k \in DictKeys(d)
    THEN [i \in DOMAIN d |-> IF d[i][1] = k THEN <<k, v>> ELSE d[i]]
    ELSE Append(d, <<k, v>>)

\* ------------------------------------------------------------------------
\* RaffleState.

RaffleState ==
    [is_active |-> FALSE, is_open |-> FALSE,
     participants |-> {}, participant_names |-> <<>>]

\* reset() that forgets to close entries.
reset_keeps_open(s) ==
    [s EXCEPT !.is_active = FALSE, !.participants = {}, !.participant_names = <<>>]

reset(s) ==
    [s EXCEPT !.is_active = FALSE, !.is_open = FALSE,
              !.participants = {}, !.participant_names = <<>>]

\* add_participant that records the id and forgets the name.
add_participant_no_name(s, user_id, display_name) ==
    IF user_id \in s.participants
    THEN [state |-> s, ret |-> FALSE]
    ELSE [state |-> [s EXCEPT !.participants = @ \cup {user_id}], ret |-> TRUE]

\* add_participant without its check that the user is not yet in.
add_participant_no_dup_check(s, user_id, display_name) ==
    [state |-> [s EXCEPT !.participants = @ \cup {user_id},
                         !.participant_names = DictSet(@, user_id, display_name)],
     ret |-> TRUE]

\* add_participant that records the name of a repeated entrant again.
add_participant_updates_name(s, user_id, display_name) ==
    IF user_id \in s.participants
    THEN [state |-> [s EXCEPT !.participant_names = DictSet(@, user_id, display_name)],
          ret |-> FALSE]
    ELSE [state |-> [s EXCEPT !.participants = @ \cup {user_id},
                              !.participant_names = DictSet(@, user_id, display_name)],
          ret |-> TRUE]

\* The state after the call, and the value returned.
add_participant(s, user_id, display_name) ==
    IF user_id \in s.participants
    THEN [state |-> s, ret |-> FALSE]
    ELSE [state |-> [s EXCEPT !.participants = @ \cup {user_id},
                              !.participant_names = DictSet(@, user_id, display_name)],
          ret |-> TRUE]

\* What secrets.choice may pick: any participant (unused when there is none).
Choices(s) == IF s.participants = {} THEN {BOT_ID} ELSE s.participants

\* draw_winner that takes the winner out of the raffle.
draw_winner_removes(s, winner_id) ==
    IF s.participants = {}
    THEN [state |-> s, ret |-> None]
    ELSE [state |-> [s EXCEPT !.participants = @ \ {winner_id}],
          ret |-> DictGet(s.participant_names, winner_id, "Unknown")]

\* The state after the call, and the value returned when secrets.choice
\* picks winner_id.
draw_winner(s, winner_id) ==
    IF s.participants = {}
    THEN [state |-> s, ret |-> None]
    ELSE [state |-> s, ret |-> DictGet(s.participant_names, winner_id, "Unknown")]

to_db_format(s) ==
    [is_active |-> s.is_active, is_open |-> s.is_open,
     participants |-> [i \in DOMAIN s.participant_names |->
                          [user_id |-> s.participant_names[i][1],
                           display_name |-> s.participant_names[i][2]]]]

RECURSIVE LoadParticipants(_, _)
\* The loop of from_db_format over the persisted list, in order.
LoadParticipants(state, participants_list) ==
    IF participants_list = <<>>
    THEN state
    ELSE LET p == Head(participants_list)
         IN  LoadParticipants(
                 [state EXCEPT !.participants = @ \cup {p.user_id},
                               !.participant_names = DictSet(@, p.user_id, p.display_name)],
                 Tail(participants_list))

\* from_db_format that does not read is_open.
from_db_format_no_open(data) ==
    LoadParticipants([RaffleState EXCEPT !.is_active = data.is_active],
                     data.participants)

from_db_format(data) ==
    LoadParticipants([RaffleState EXCEPT !.is_active = data.is_active,
                                         !.is_open = data.is_open],
                     data.participants)

\* ------------------------------------------------------------------------
\* State of the program.

VARIABLES
    raffles,   \* RaffleComponent.raffles: broadcaster id -> RaffleState
    db,        \* the raffles table: broadcaster id -> row
    out,       \* the chat outputs of the last command, in order
    calls,     \* the persistence calls of the last command, in order
    last,      \* the last command handled and its channel
    nfail,     \* persistence calls that raised so far
    offered,   \* the user ids offered to add_participant since the last reset
    tasks,     \* the draw handlers suspended in an awaited send
    epoch,     \* the raffles started so far
    announced  \* the result broadcasts since the last raffle was started

vars == <<raffles, db, out, calls, last, nfail, offered, tasks, epoch, announced>>

\* ------------------------------------------------------------------------
\* Chat outputs: ctx.reply addresses the caller, ctx.send the channel.

Message(kind, text, name, count, suffix) ==
    [kind |-> kind, text |-> text, name |-> name, count |-> count, suffix |-> suffix]

Reply(text) == Message("reply", text, None, -1, "")

Send(text) == Message("send", text, None, -1, "")

\* ------------------------------------------------------------------------
\* The store and the persistence adapter.

\* A function with one more point.
Put(f, k, v) == [x \in DOMAIN f \cup {k} |-> IF x = k THEN v ELSE f[x]]

Drop(f, k) == [x \in DOMAIN f \ {k} |-> f[x]]

\* The store after the call; the RaffleState handed out is the store's entry.
get_raffle(rs, broadcaster_id) ==
    IF broadcaster_id \notin DOMAIN rs
    THEN Put(rs, broadcaster_id, RaffleState)
    ELSE rs

Call(op, broadcaster_id, ok) == [op |-> op, broadcaster_id |-> broadcaster_id, ok |-> ok]

\* save_raffle without its except clause.
save_raffle_raises(rs, d, broadcaster_id, ok) ==
    IF broadcaster_id \notin DOMAIN rs
    THEN [db |-> d, calls |-> <<>>, raised |-> FALSE]
    ELSE LET data == to_db_format(rs[broadcaster_id]) @@
                     [broadcaster_id |-> broadcaster_id]
         IN  IF ok
             THEN [db |-> Put(d, broadcaster_id, data),
                   calls |-> <<Call("upsert", broadcaster_id, TRUE)>>, raised |-> FALSE]
             ELSE [db |-> d,
                   calls |-> <<Call("upsert", broadcaster_id, FALSE)>>, raised |-> TRUE]

\* The table and the calls made; raised: an exception leaves save_raffle.
\* A call that raises an error leaves the table as it was.
save_raffle(rs, d, broadcaster_id, ok) ==
    IF broadcaster_id \notin DOMAIN rs
    THEN [db |-> d, calls |-> <<>>, raised |-> FALSE]
    ELSE LET data == to_db_format(rs[broadcaster_id]) @@
                     [broadcaster_id |-> broadcaster_id]
         IN  IF ok
             THEN [db |-> Put(d, broadcaster_id, data),
                   calls |-> <<Call("upsert", broadcaster_id, TRUE)>>, raised |-> FALSE]
             ELSE [db |-> d,
                   calls |-> <<Call("upsert", broadcaster_id, FALSE)>>, raised |-> FALSE]

\* delete_raffle whose call succeeds and leaves the row in the table.
delete_raffle_keeps_row(d, broadcaster_id, ok) ==
    [db |-> d, calls |-> <<Call("delete", broadcaster_id, ok)>>, raised |-> FALSE]

\* delete_raffle without its filter on broadcaster_id: every row goes.
delete_raffle_every_row(d, broadcaster_id, ok) ==
    IF ok
    THEN [db |-> <<>>,
          calls |-> <<Call("delete", broadcaster_id, TRUE)>>, raised |-> FALSE]
    ELSE [db |-> d,
          calls |-> <<Call("delete", broadcaster_id, FALSE)>>, raised |-> FALSE]

delete_raffle(d, broadcaster_id, ok) ==
    IF ok
    THEN [db |-> Drop(d, broadcaster_id),
          calls |-> <<Call("delete", broadcaster_id, TRUE)>>, raised |-> FALSE]
    ELSE [db |-> d,
          calls |-> <<Call("delete", broadcaster_id, FALSE)>>, raised |-> FALSE]

\* The store of a new process: empty, then one entry per active row.
load_all_active_raffles(d, ok) ==
    IF ok
    THEN [b \in {x \in DOMAIN d : d[x].is_active} |-> from_db_format(d[b])]
    ELSE <<>>

is_eligible(chatter) ==
    chatter.vip \/ chatter.subscriber \/ chatter.moderator \/ chatter.broadcaster

can_manage(chatter) == chatter.moderator \/ chatter.broadcaster

\* ------------------------------------------------------------------------
\* The command handlers.  Each gives the store, the table, the chat outputs
\* and the persistence calls once the handler has run to its end from store
\* rs and table d; ok tells whether its persistence call succeeds.  Where a
\* persistence call lets an exception out, the handler ends there.

Result(rs, d, o, c) == [raffles |-> rs, db |-> d, out |-> o, calls |-> c]

\* The plural 's' for counts above 1 only.
Plural_above_one(count) == IF count > 1 THEN "s" ELSE ""

\* 's' if count != 1 else ''
Plural(count) == IF count # 1 THEN "s" ELSE ""

\* 's were' if count != 1 else ' was'
PluralWere(count) == IF count # 1 THEN "s were" ELSE " was"

\* start_raffle without its check that no raffle is in progress.
start_raffle_no_active_check(rs, d, ctx, ok) ==
    IF ~can_manage(ctx.chatter)
    THEN Result(rs, d,
                <<Reply("Only moderators and the broadcaster can start a raffle.")>>, <<>>)
    ELSE
    LET rs1 == get_raffle(rs, ctx.broadcaster.id)
        raffle == rs1[ctx.broadcaster.id]
    IN  IF FALSE
        THEN Result(rs1, d, <<Reply("A raffle is already in progress.")>>, <<>>)
        ELSE
        LET started == [reset(raffle) EXCEPT !.is_active = TRUE, !.is_open = TRUE]
            rs2 == [rs1 EXCEPT ![ctx.broadcaster.id] = started]
            saved == save_raffle(rs2, d, ctx.broadcaster.id, ok)
        IN  IF saved.raised
            THEN Result(rs2, saved.db, <<>>, saved.calls)
            ELSE Result(rs2, saved.db,
                        <<Send("Raffle started! VIPs, Subscribers, and Moderators can type !enter to enter.")>>,
                        saved.calls)

start_raffle(rs, d, ctx, ok) ==
    IF ~can_manage(ctx.chatter)
    THEN Result(rs, d,
                <<Reply("Only moderators and the broadcaster can start a raffle.")>>, <<>>)
    ELSE
    LET rs1 == get_raffle(rs, ctx.broadcaster.id)
        raffle == rs1[ctx.broadcaster.id]
    IN  IF raffle.is_active
        THEN Result(rs1, d, <<Reply("A raffle is already in progress.")>>, <<>>)
        ELSE
        LET started == [reset(raffle) EXCEPT !.is_active = TRUE, !.is_open = TRUE]
            rs2 == [rs1 EXCEPT ![ctx.broadcaster.id] = started]
            saved == save_raffle(rs2, d, ctx.broadcaster.id, ok)
        IN  IF saved.raised
            THEN Result(rs2, saved.db, <<>>, saved.calls)
            ELSE Result(rs2, saved.db,
                        <<Send("Raffle started! VIPs, Subscribers, and Moderators can type !enter to enter.")>>,
                        saved.calls)

\* join_raffle without its check that the caller is not the bot.
join_raffle_no_bot_check(rs, d, ctx, ok) ==
    LET rs1 == get_raffle(rs, ctx.broadcaster.id)
        raffle == rs1[ctx.broadcaster.id]
    IN  IF FALSE
        THEN Result(rs1, d, <<>>, <<>>)
        ELSE IF ~raffle.is_active
        THEN Result(rs1, d, <<Reply("There is no raffle happening right now.")>>, <<>>)
        ELSE IF ~raffle.is_open
        THEN Result(rs1, d, <<Reply("Raffle entries are closed.")>>, <<>>)
        ELSE IF ~is_eligible(ctx.chatter)
        THEN Result(rs1, d, <<Reply("Only VIPs, Subscribers, and Moderators can join.")>>, <<>>)
        ELSE
        LET display_name == IF Truthy(ctx.chatter.display_name)
                            THEN ctx.chatter.display_name
                            ELSE ctx.chatter.name
            added == add_participant(raffle, ctx.chatter.id, display_name)
            rs2 == [rs1 EXCEPT ![ctx.broadcaster.id] = added.state]
        IN  IF added.ret
            THEN LET saved == save_raffle(rs2, d, ctx.broadcaster.id, ok)
                 IN  Result(rs2, saved.db, <<>>, saved.calls)
            ELSE Result(rs2, d,
                        <<Message("reply", "{display_name}, you have already joined.",
                                  display_name, -1, "")>>, <<>>)

\* join_raffle without its check that entries are open.
join_raffle_no_open_check(rs, d, ctx, ok) ==
    LET rs1 == get_raffle(rs, ctx.broadcaster.id)
        raffle == rs1[ctx.broadcaster.id]
    IN  IF ctx.chatter.id = BOT_ID
        THEN Result(rs1, d, <<>>, <<>>)
        ELSE IF ~raffle.is_active
        THEN Result(rs1, d, <<Reply("There is no raffle happening right now.")>>, <<>>)
        ELSE IF FALSE
        THEN Result(rs1, d, <<Reply("Raffle entries are closed.")>>, <<>>)
        ELSE IF ~is_eligible(ctx.chatter)
        THEN Result(rs1, d, <<Reply("Only VIPs, Subscribers, and Moderators can join.")>>, <<>>)
        ELSE
        LET display_name == IF Truthy(ctx.chatter.display_name)
                            THEN ctx.chatter.display_name
                            ELSE ctx.chatter.name
            added == add_participant(raffle, ctx.chatter.id, display_name)
            rs2 == [rs1 EXCEPT ![ctx.broadcaster.id] = added.state]
        IN  IF added.ret
            THEN LET saved == save_raffle(rs2, d, ctx.broadcaster.id, ok)
                 IN  Result(rs2, saved.db, <<>>, saved.calls)
            ELSE Result(rs2, d,
                        <<Message("reply", "{display_name}, you have already joined.",
                                  display_name, -1, "")>>, <<>>)

join_raffle(rs, d, ctx, ok) ==
    LET rs1 == get_raffle(rs, ctx.broadcaster.id)
        raffle == rs1[ctx.broadcaster.id]
    IN  IF ctx.chatter.id = BOT_ID
        THEN Result(rs1, d, <<>>, <<>>)
        ELSE IF ~raffle.is_active
        THEN Result(rs1, d, <<Reply("There is no raffle happening right now.")>>, <<>>)
        ELSE IF ~raffle.is_open
        THEN Result(rs1, d, <<Reply("Raffle entries are closed.")>>, <<>>)
        ELSE IF ~is_eligible(ctx.chatter)
        THEN Result(rs1, d, <<Reply("Only VIPs, Subscribers, and Moderators can join.")>>, <<>>)
        ELSE
        LET display_name == IF Truthy(ctx.chatter.display_name)
                            THEN ctx.chatter.display_name
                            ELSE ctx.chatter.name
            added == add_participant(raffle, ctx.chatter.id, display_name)
            rs2 == [rs1 EXCEPT ![ctx.broadcaster.id] = added.state]
        IN  IF added.ret
            THEN LET saved == save_raffle(rs2, d, ctx.broadcaster.id, ok)
                 IN  Result(rs2, saved.db, <<>>, saved.calls)
            ELSE Result(rs2, d,
                        <<Message("reply", "{display_name}, you have already joined.",
                                  display_name, -1, "")>>, <<>>)

\* end_raffle that closes entries in memory and leaves out save_raffle.
end_raffle_no_save(rs, d, ctx, ok) ==
    IF ~can_manage(ctx.chatter)
    THEN Result(rs, d,
                <<Reply("Only moderators and the broadcaster can end a raffle.")>>, <<>>)
    ELSE
    LET rs1 == get_raffle(rs, ctx.broadcaster.id)
        raffle == rs1[ctx.broadcaster.id]
    IN  IF ~raffle.is_active
        THEN Result(rs1, d, <<Reply("There is no raffle to end.")>>, <<>>)
        ELSE IF ~raffle.is_open
        THEN Result(rs1, d,
                    <<Reply("Entries are already closed. Use !draw to pick a winner.")>>, <<>>)
        ELSE
        LET rs2 == [rs1 EXCEPT ![ctx.broadcaster.id].is_open = FALSE]
            count == Cardinality(raffle.participants)
        IN  Result(rs2, d,
                   <<Message("send", "Entries closed. {count} participant{s} entered.",
                             None, count, Plural(count))>>,
                   <<>>)

end_raffle(rs, d, ctx, ok) ==
    IF ~can_manage(ctx.chatter)
    THEN Result(rs, d,
                <<Reply("Only moderators and the broadcaster can end a raffle.")>>, <<>>)
    ELSE
    LET rs1 == get_raffle(rs, ctx.broadcaster.id)
        raffle == rs1[ctx.broadcaster.id]
    IN  IF ~raffle.is_active
        THEN Result(rs1, d, <<Reply("There is no raffle to end.")>>, <<>>)
        ELSE IF ~raffle.is_open
        THEN Result(rs1, d,
                    <<Reply("Entries are already closed. Use !draw to pick a winner.")>>, <<>>)
        ELSE
        LET rs2 == [rs1 EXCEPT ![ctx.broadcaster.id].is_open = FALSE]
            count == Cardinality(raffle.participants)
            saved == save_raffle(rs2, d, ctx.broadcaster.id, ok)
        IN  IF saved.raised
            THEN Result(rs2, saved.db, <<>>, saved.calls)
            ELSE Result(rs2, saved.db,
                        <<Message("send", "Entries closed. {count} participant{s} entered.",
                                  None, count, Plural(count))>>,
                        saved.calls)

\* draw that resets the raffle only when it found a winner.
draw_winner_command_keeps_empty(rs, d, ctx, winner_id, ok) ==
    IF ~can_manage(ctx.chatter)
    THEN Result(rs, d,
                <<Reply("Only moderators and the broadcaster can draw a winner.")>>, <<>>)
    ELSE
    LET rs1 == get_raffle(rs, ctx.broadcaster.id)
        raffle == rs1[ctx.broadcaster.id]
    IN  IF ~raffle.is_active
        THEN Result(rs1, d,
                    <<Reply("No raffle active. Start one with !startraffle")>>, <<>>)
        ELSE
        LET closed == IF raffle.is_open THEN [raffle EXCEPT !.is_open = FALSE] ELSE raffle
            out1 == IF raffle.is_open THEN <<Send("Entries closed.")>> ELSE <<>>
            drawn == draw_winner(closed, winner_id)
            winner == drawn.ret
            out2 == IF Truthy(winner)
                    THEN Append(out1, Message("send", "The winner is @{winner} !! Congratulations!",
                                              winner, -1, ""))
                    ELSE Append(out1, Send("No one entered the raffle."))
            rs2 == [rs1 EXCEPT ![ctx.broadcaster.id] =
                        IF Truthy(winner) THEN reset(drawn.state) ELSE drawn.state]
            deleted == delete_raffle(d, ctx.broadcaster.id, ok)
        IN  Result(rs2, deleted.db, out2, deleted.calls)

\* draw without its check that a raffle is active.
draw_winner_command_no_active_check(rs, d, ctx, winner_id, ok) ==
    IF ~can_manage(ctx.chatter)
    THEN Result(rs, d,
                <<Reply("Only moderators and the broadcaster can draw a winner.")>>, <<>>)
    ELSE
    LET rs1 == get_raffle(rs, ctx.broadcaster.id)
        raffle == rs1[ctx.broadcaster.id]
    IN  IF FALSE
        THEN Result(rs1, d,
                    <<Reply("No raffle active. Start one with !startraffle")>>, <<>>)
        ELSE
        LET closed == IF raffle.is_open THEN [raffle EXCEPT !.is_open = FALSE] ELSE raffle
            out1 == IF raffle.is_open THEN <<Send("Entries closed.")>> ELSE <<>>
            drawn == draw_winner(closed, winner_id)
            winner == drawn.ret
            out2 == IF Truthy(winner)
                    THEN Append(out1, Message("send", "The winner is @{winner} !! Congratulations!",
                                              winner, -1, ""))
                    ELSE Append(out1, Send("No one entered the raffle."))
            rs2 == [rs1 EXCEPT ![ctx.broadcaster.id] = reset(drawn.state)]
            deleted == delete_raffle(d, ctx.broadcaster.id, ok)
        IN  Result(rs2, deleted.db, out2, deleted.calls)

\* draw that announces the result before it says that entries are closed.
draw_winner_command_result_first(rs, d, ctx, winner_id, ok) ==
    IF ~can_manage(ctx.chatter)
    THEN Result(rs, d,
                <<Reply("Only moderators and the broadcaster can draw a winner.")>>, <<>>)
    ELSE
    LET rs1 == get_raffle(rs, ctx.broadcaster.id)
        raffle == rs1[ctx.broadcaster.id]
    IN  IF ~raffle.is_active
        THEN Result(rs1, d,
                    <<Reply("No raffle active. Start one with !startraffle")>>, <<>>)
        ELSE
        LET drawn == draw_winner(raffle, winner_id)
            winner == drawn.ret
            out1 == IF Truthy(winner)
                    THEN <<Message("send", "The winner is @{winner} !! Congratulations!",
                                   winner, -1, "")>>
                    ELSE <<Send("No one entered the raffle.")>>
            out2 == IF raffle.is_open THEN Append(out1, Send("Entries closed.")) ELSE out1
            rs2 == [rs1 EXCEPT ![ctx.broadcaster.id] = reset(drawn.state)]
            deleted == delete_raffle(d, ctx.broadcaster.id, ok)
        IN  Result(rs2, deleted.db, out2, deleted.calls)

\* winner_id: the participant secrets.choice picks.
draw_winner_command(rs, d, ctx, winner_id, ok) ==
    IF ~can_manage(ctx.chatter)
    THEN Result(rs, d,
                <<Reply("Only moderators and the broadcaster can draw a winner.")>>, <<>>)
    ELSE
    LET rs1 == get_raffle(rs, ctx.broadcaster.id)
        raffle == rs1[ctx.broadcaster.id]
    IN  IF ~raffle.is_active
        THEN Result(rs1, d,
                    <<Reply("No raffle active. Start one with !startraffle")>>, <<>>)
        ELSE
        LET closed == IF raffle.is_open THEN [raffle EXCEPT !.is_open = FALSE] ELSE raffle
            out1 == IF raffle.is_open THEN <<Send("Entries closed.")>> ELSE <<>>
            drawn == draw_winner(closed, winner_id)
            winner == drawn.ret
            out2 == IF Truthy(winner)
                    THEN Append(out1, Message("send", "The winner is @{winner} !! Congratulations!",
                                              winner, -1, ""))
                    ELSE Append(out1, Send("No one entered the raffle."))
            rs2 == [rs1 EXCEPT ![ctx.broadcaster.id] = reset(drawn.state)]
            deleted == delete_raffle(d, ctx.broadcaster.id, ok)
        IN  Result(rs2, deleted.db, out2, deleted.calls)

cancel_raffle(rs, d, ctx, ok) ==
    IF ~can_manage(ctx.chatter)
    THEN Result(rs, d,
                <<Reply("Only moderators and the broadcaster can cancel a raffle.")>>, <<>>)
    ELSE
    LET rs1 == get_raffle(rs, ctx.broadcaster.id)
        raffle == rs1[ctx.broadcaster.id]
    IN  IF ~raffle.is_active
        THEN Result(rs1, d, <<Reply("There is no raffle to cancel.")>>, <<>>)
        ELSE
        LET count == Cardinality(raffle.participants)
            rs2 == [rs1 EXCEPT ![ctx.broadcaster.id] = reset(raffle)]
            deleted == delete_raffle(d, ctx.broadcaster.id, ok)
        IN  IF deleted.raised
            THEN Result(rs2, deleted.db, <<>>, deleted.calls)
            ELSE Result(rs2, deleted.db,
                        <<Message("send", "Raffle cancelled. {count} participant{s were} entered.",
                                  None, count, PluralWere(count))>>,
                        deleted.calls)

show_participants(rs, d, ctx) ==
    LET rs1 == get_raffle(rs, ctx.broadcaster.id)
        raffle == rs1[ctx.broadcaster.id]
    IN  IF ~raffle.is_active
        THEN Result(rs1, d, <<Reply("No raffle happening.")>>, <<>>)
        ELSE LET count == Cardinality(raffle.participants)
                 status == IF raffle.is_open THEN "Open" ELSE "Closed"
             IN  Result(rs1, d,
                        <<Message("reply", "Status: {status} | Participants: {count}",
                                  status, count, "")>>, <<>>)

raffle_help(rs, d, ctx) ==
    Result(rs, d,
           <<Send("Commands: !enter, !participants | Mods: !startraffle, !endraffle, !draw, !cancelraffle")>>,
           <<>>)

\* ------------------------------------------------------------------------
\* The draw handler in the segments between its awaited sends. An awaited
\* ctx.send or ctx.reply suspends the handler and the event loop may run
\* other handlers before it resumes this one; save_raffle and delete_raffle
\* never suspend (the calls of the persistence client are synchronous).
\* Every other handler awaits its send or reply last: nothing of it runs
\* after a suspension.

\* A handler that is not running. pc: where a suspended draw handler is,
\* "closing" in the send of "Entries closed." (line 205), "announcing" in
\* the send of the result (lines 210, 212); epoch: the raffle count when it
\* picked its winner.
IdleTask == [pc |-> "idle", broadcaster_id |-> 0, epoch |-> 0]

\* Lines 193-205: to the first await, or to the pick ("select") when the
\* raffle is closed already.
draw_begin(rs, ctx) ==
    IF ~can_manage(ctx.chatter)
    THEN [raffles |-> rs, pc |-> "idle",
          out |-> <<Reply("Only moderators and the broadcaster can draw a winner.")>>]
    ELSE
    LET rs1 == get_raffle(rs, ctx.broadcaster.id)
        raffle == rs1[ctx.broadcaster.id]
    IN  IF ~raffle.is_active
        THEN [raffles |-> rs1, pc |-> "idle",
              out |-> <<Reply("No raffle active. Start one with !startraffle")>>]
        ELSE IF raffle.is_open
        THEN [raffles |-> [rs1 EXCEPT ![ctx.broadcaster.id].is_open = FALSE],
              pc |-> "closing", out |-> <<Send("Entries closed.")>>]
        ELSE [raffles |-> rs1, pc |-> "select", out |-> <<>>]

\* Lines 207-212: the pick, when secrets.choice picks winner_id, and the
\* broadcast of the result.
draw_select(rs, broadcaster_id, winner_id) ==
    LET winner == draw_winner(rs[broadcaster_id], winner_id).ret
    IN  IF Truthy(winner)
        THEN <<Message("send", "The winner is @{winner} !! Congratulations!",
                       winner, -1, "")>>
        ELSE <<Send("No one entered the raffle.")>>

\* Lines 214-215: reset of the RaffleState the handler holds, and the delete.
draw_finish(rs, d, broadcaster_id, ok) ==
    LET deleted == delete_raffle(d, broadcaster_id, ok)
    IN  [raffles |-> [rs EXCEPT ![broadcaster_id] = reset(@)],
         db |-> deleted.db, calls |-> deleted.calls]

\* ------------------------------------------------------------------------
\* Behaviours: the event loop delivers one command at a time and each
\* handler runs to its end; the process may restart between commands.

\* The outcomes a persistence call may have in the current state.
Outcomes == IF nfail < MaxDbFailures THEN {TRUE, FALSE} ELSE {TRUE}

Failed(c) == Cardinality({i \in DOMAIN c : ~c[i].ok})

\* The step of a handler with result r for command cmd in channel b.
Handle(cmd, b, r) ==
    /\ raffles' = r.raffles
    /\ db' = r.db
    /\ out' = r.out
    /\ calls' = r.calls
    /\ last' = [cmd |-> cmd, broadcaster_id |-> b]
    /\ nfail' = nfail + Failed(r.calls)
    /\ UNCHANGED <<offered, tasks, epoch, announced>>

Init ==
    /\ raffles = <<>>
    /\ db = <<>>
    /\ out = <<>>
    /\ calls = <<>>
    /\ last = [cmd |-> "init", broadcaster_id |-> 0]
    /\ nfail = 0
    /\ offered = {}
    /\ tasks = [i \in 1 .. MaxTasks |-> IdleTask]
    /\ epoch = 0
    /\ announced = 0

\* Commands from channels bs, whose persistence calls end as one of oks.

StartRaffle(bs, oks) ==
    \E ctx \in RoleContexts(bs), ok \in oks :
        Handle("startraffle", ctx.broadcaster.id, start_raffle(raffles, db, ctx, ok))

\* cs: the chatters that may enter.
JoinRaffle(cs, bs, oks) ==
    \E c \in cs, b \in bs, ok \in oks :
        Handle("enter", b, join_raffle(raffles, db, Context(c, b), ok))

EndRaffle(bs, oks) ==
    \E ctx \in RoleContexts(bs), ok \in oks :
        Handle("endraffle", ctx.broadcaster.id, end_raffle(raffles, db, ctx, ok))

DrawWinner(bs, oks) ==
    \E ctx \in RoleContexts(bs), ok \in oks :
        \E winner_id \in Choices(get_raffle(raffles, ctx.broadcaster.id)[ctx.broadcaster.id]) :
            Handle("draw", ctx.broadcaster.id,
                   draw_winner_command(raffles, db, ctx, winner_id, ok))

CancelRaffle(bs, oks) ==
    \E ctx \in RoleContexts(bs), ok \in oks :
        Handle("cancelraffle", ctx.broadcaster.id, cancel_raffle(raffles, db, ctx, ok))

ShowParticipants(bs) ==
    \E ctx \in RoleContexts(bs) :
        Handle("participants", ctx.broadcaster.id, show_participants(raffles, db, ctx))

RaffleHelp(bs) ==
    \E ctx \in RoleContexts(bs) :
        Handle("rafflehelp", ctx.broadcaster.id, raffle_help(raffles, db, ctx))

\* The process exits and a new one runs setup_hook: a new RaffleComponent
\* with an empty store, then load_all_active_raffles.
Restart(oks) ==
    \E ok \in oks :
        Handle("restart", 0,
               Result(load_all_active_raffles(db, ok), db, <<>>, <<Call("select", 0, ok)>>))

\* One channel, chatters that may change their display name, persistence
\* calls that may fail.
Next ==
    \/ StartRaffle(OneChannel, Outcomes)
    \/ JoinRaffle(RenamingChatters, OneChannel, Outcomes)
    \/ EndRaffle(OneChannel, Outcomes)
    \/ DrawWinner(OneChannel, Outcomes)
    \/ CancelRaffle(OneChannel, Outcomes)
    \/ ShowParticipants(OneChannel)
    \/ RaffleHelp(OneChannel)
    \/ Restart(Outcomes)

Spec == Init /\ [][Next]_vars

\* Every channel, chatters that keep their display name, persistence calls
\* that succeed.
NextChannels ==
    \/ StartRaffle(Broadcasters, {TRUE})
    \/ JoinRaffle(Chatters, Broadcasters, {TRUE})
    \/ EndRaffle(Broadcasters, {TRUE})
    \/ DrawWinner(Broadcasters, {TRUE})
    \/ CancelRaffle(Broadcasters, {TRUE})
    \/ ShowParticipants(Broadcasters)
    \/ RaffleHelp(Broadcasters)
    \/ Restart({TRUE})

SpecChannels == Init /\ [][NextChannels]_vars

\* ------------------------------------------------------------------------
\* Sequences of calls of the methods of one RaffleState, that of channel 1.

\* The names join_raffle may pass for user u: display_name or name.
EffectiveNames(u) ==
    {IF Truthy(dn) THEN dn ELSE LoginName(u) : dn \in DisplayNames(u)}

InitAdd ==
    /\ raffles = [b \in OneChannel |-> [RaffleState EXCEPT !.is_active = TRUE, !.is_open = TRUE]]
    /\ db = <<>>
    /\ out = <<>>
    /\ calls = <<>>
    /\ last = [cmd |-> "init", user_id |-> BOT_ID, ret |-> FALSE]
    /\ nfail = 0
    /\ offered = {}
    /\ tasks = [i \in 1 .. MaxTasks |-> IdleTask]
    /\ epoch = 0
    /\ announced = 0

AddParticipant ==
    \E user_id \in UserIds :
        \E display_name \in EffectiveNames(user_id) :
            LET added == add_participant(raffles[1], user_id, display_name)
            IN  /\ raffles' = [raffles EXCEPT ![1] = added.state]
                /\ last' = [cmd |-> "add_participant", user_id |-> user_id, ret |-> added.ret]
                /\ offered' = offered \cup {user_id}
                /\ UNCHANGED <<db, out, calls, nfail, tasks, epoch, announced>>

ResetState ==
    /\ raffles' = [raffles EXCEPT ![1] = reset(@)]
    /\ last' = [cmd |-> "reset", user_id |-> BOT_ID, ret |-> FALSE]
    /\ offered' = {}
    /\ UNCHANGED <<db, out, calls, nfail, tasks, epoch, announced>>

NextAdd ==
    \/ AddParticipant
    \/ ResetState

SpecAdd == InitAdd /\ [][NextAdd]_vars

\* ------------------------------------------------------------------------
\* Handlers of one channel that interleave at their suspension points;
\* persistence calls succeed and the process does not restart. The commands
\* that only read the raffle (participants, rafflehelp) are left out.

Tasks == 1 .. MaxTasks

\* The step of a handler, or of a segment of one, with result r.
\* t, e, a: the suspended handlers, the raffle count and the result count
\* after the step.
Effect(cmd, b, r, t, e, a) ==
    /\ raffles' = r.raffles
    /\ db' = r.db
    /\ out' = r.out
    /\ calls' = r.calls
    /\ last' = [cmd |-> cmd, broadcaster_id |-> b]
    /\ tasks' = t
    /\ epoch' = e
    /\ announced' = a
    /\ UNCHANGED <<nfail, offered>>

AsyncStart ==
    \E ctx \in RoleContexts(OneChannel) :
        LET r == start_raffle(raffles, db, ctx, TRUE)
            started == r.calls # <<>>
        IN  /\ started => epoch < MaxRaffles
            /\ Effect("startraffle", ctx.broadcaster.id, r, tasks,
                      IF started THEN epoch + 1 ELSE epoch,
                      IF started THEN 0 ELSE announced)

AsyncJoin ==
    \E c \in Chatters, b \in OneChannel :
        Effect("enter", b, join_raffle(raffles, db, Context(c, b), TRUE),
               tasks, epoch, announced)

AsyncEnd ==
    \E ctx \in RoleContexts(OneChannel) :
        Effect("endraffle", ctx.broadcaster.id, end_raffle(raffles, db, ctx, TRUE),
               tasks, epoch, announced)

AsyncCancel ==
    \E ctx \in RoleContexts(OneChannel) :
        Effect("cancelraffle", ctx.broadcaster.id, cancel_raffle(raffles, db, ctx, TRUE),
               tasks, epoch, announced)

\* A draw command is delivered: its handler runs to its first await.
DrawBegin ==
    \E ctx \in RoleContexts(OneChannel), i \in Tasks :
        /\ tasks[i].pc = "idle"
        /\ \A j \in 1 .. i - 1 : tasks[j].pc # "idle"
        /\ LET b == ctx.broadcaster.id
               begun == draw_begin(raffles, ctx)
           IN  IF begun.pc = "select"
               THEN \E winner_id \in Choices(begun.raffles[b]) :
                        Effect("draw", b,
                               Result(begun.raffles, db,
                                      draw_select(begun.raffles, b, winner_id), <<>>),
                               [tasks EXCEPT ![i] = [pc |-> "announcing",
                                                     broadcaster_id |-> b,
                                                     epoch |-> epoch]],
                               epoch, announced + 1)
               ELSE Effect("draw", b, Result(begun.raffles, db, begun.out, <<>>),
                           [tasks EXCEPT ![i] = IF begun.pc = "idle"
                                                THEN IdleTask
                                                ELSE [pc |-> begun.pc,
                                                      broadcaster_id |-> b,
                                                      epoch |-> 0]],
                           epoch, announced)

\* A draw handler resumes after "Entries closed.", to its next await.
DrawSelect ==
    \E i \in Tasks :
        /\ tasks[i].pc = "closing"
        /\ LET b == tasks[i].broadcaster_id
           IN  \E winner_id \in Choices(raffles[b]) :
                   Effect("draw", b,
                          Result(raffles, db, draw_select(raffles, b, winner_id), <<>>),
                          [tasks EXCEPT ![i] = [pc |-> "announcing",
                                                broadcaster_id |-> b,
                                                epoch |-> epoch]],
                          epoch, announced + 1)

\* A draw handler resumes after the result broadcast, to its end.
DrawFinish ==
    \E i \in Tasks :
        /\ tasks[i].pc = "announcing"
        /\ LET b == tasks[i].broadcaster_id
               finished == draw_finish(raffles, db, b, TRUE)
           IN  Effect("draw", b,
                      Result(finished.raffles, finished.db, <<>>, finished.calls),
                      [tasks EXCEPT ![i] = IdleTask], epoch, announced)

NextAsync ==
    \/ AsyncStart
    \/ AsyncJoin
    \/ AsyncEnd
    \/ AsyncCancel
    \/ DrawBegin
    \/ DrawSelect
    \/ DrawFinish

SpecAsync == Init /\ [][NextAsync]_vars

\* ------------------------------------------------------------------------
\* to_db_format and from_db_format on any RaffleState, reachable or not.

RECURSIVE DictsOf(_)
\* The dicts from user ids in keys to names, in every insertion order.
DictsOf(keys) ==
    {<<>>} \cup
    UNION {{Append(d, <<k, n>>) : d \in DictsOf(keys \ {k}), n \in EffectiveNames(k)} :
              k \in keys}

\* Every value of the four fields of a RaffleState.
RaffleStates ==
    [is_active : BOOLEAN, is_open : BOOLEAN,
     participants : SUBSET UserIds, participant_names : DictsOf(UserIds)]

InitFormat ==
    /\ raffles \in [OneChannel -> RaffleStates]
    /\ db = <<>>
    /\ out = <<>>
    /\ calls = <<>>
    /\ last = [cmd |-> "init", broadcaster_id |-> 0]
    /\ nfail = 0
    /\ offered = {}
    /\ tasks = [i \in 1 .. MaxTasks |-> IdleTask]
    /\ epoch = 0
    /\ announced = 0

\* The state of channel 1 is converted to its row.
ToDbFormat ==
    /\ db' = [b \in OneChannel |-> to_db_format(raffles[b])]
    /\ last' = [cmd |-> "to_db_format", broadcaster_id |-> 1]
    /\ UNCHANGED <<raffles, out, calls, nfail, offered, tasks, epoch, announced>>

\* The row is converted to the state of channel 1.
FromDbFormat ==
    /\ 1 \in DOMAIN db
    /\ raffles' = [b \in OneChannel |-> from_db_format(db[b])]
    /\ last' = [cmd |-> "from_db_format", broadcaster_id |-> 1]
    /\ UNCHANGED <<db, out, calls, nfail, offered, tasks, epoch, announced>>

NextFormat ==
    \/ ToDbFormat
    \/ FromDbFormat

SpecFormat == InitFormat /\ [][NextFormat]_vars

\* ------------------------------------------------------------------------
\* Views of the store.

IsActive(rs, b) == b \in DOMAIN rs /\ rs[b].is_active

IsOpen(rs, b) == b \in DOMAIN rs /\ rs[b].is_open

Participants(rs, b) == IF b \in DOMAIN rs THEN rs[b].participants ELSE {}

TypeOK ==
    /\ DOMAIN raffles \subseteq Broadcasters
    /\ DOMAIN db \subseteq Broadcasters
    /\ nfail \in 0 .. MaxDbFailures

\* ------------------------------------------------------------------------
\* Properties.

Rejected(text) == <<Reply(text)>>

\* C1: in every reachable state, after any commands and restarts, a raffle
\* that is open is active: is_open implies is_active, for every broadcaster
\* in the store.
OpenImpliesActive ==
    \A b \in DOMAIN raffles : raffles[b].is_open => raffles[b].is_active

\* A restart has reloaded a raffle that is open.
OpenImpliesActiveWitness ==
    /\ last.cmd = "restart"
    /\ IsOpen(raffles, 1)
    /\ Participants(raffles, 1) # {}

\* C2: in every reachable state the set participants is the key set of
\* participant_names, for every broadcaster in the store.
SameKeySets ==
    \A b \in DOMAIN raffles :
        raffles[b].participants = DictKeys(raffles[b].participant_names)

\* Two chatters have entered, and the raffle has been reloaded with both.
SameKeySetsWitness ==
    /\ last.cmd = "restart"
    /\ Cardinality(Participants(raffles, 1)) = 2
    /\ Len(raffles[1].participant_names) = 2

\* C3: in every reachable state, a start command by a moderator or the
\* broadcaster in a channel whose raffle is not active leaves that raffle
\* active and open with no participant; a start command in a channel whose
\* raffle is active leaves is_active, is_open and participants as they were.
StartOpensEmptyOrRejects ==
    \A ctx \in RoleContexts(Broadcasters), ok \in BOOLEAN :
        LET b == ctx.broadcaster.id
            r == start_raffle(raffles, db, ctx, ok).raffles
        IN  /\ ((ctx.chatter.moderator \/ ctx.chatter.broadcaster) /\ ~IsActive(raffles, b))
                => /\ IsActive(r, b)
                   /\ IsOpen(r, b)
                   /\ Participants(r, b) = {}
                   /\ r[b].participant_names = <<>>
            /\ IsActive(raffles, b)
                => /\ IsActive(r, b)
                   /\ IsOpen(r, b) = IsOpen(raffles, b)
                   /\ Participants(r, b) = Participants(raffles, b)

\* A start command has opened a raffle, and the table holds its empty row.
StartOpensEmptyWitness ==
    /\ last.cmd = "startraffle"
    /\ out = <<Send("Raffle started! VIPs, Subscribers, and Moderators can type !enter to enter.")>>
    /\ IsActive(raffles, 1) /\ IsOpen(raffles, 1)
    /\ Participants(raffles, 1) = {}

\* C4: in every reachable state, an enter command adds nobody but its
\* caller, and adds the caller only if the raffle is active and open, the
\* caller is a vip, a subscriber, a moderator or the broadcaster, and the
\* caller is not the bot; an enter by a caller with none of these roles
\* leaves the participant count as it was; the bot is in no participant set.
EnterOnlyOpenEligibleNotBot ==
    /\ \A b \in DOMAIN raffles : BOT_ID \notin raffles[b].participants
    /\ \A ctx \in Contexts, ok \in BOOLEAN :
        LET b == ctx.broadcaster.id
            c == ctx.chatter
            r == join_raffle(raffles, db, ctx, ok).raffles
        IN  /\ Participants(r, b) \subseteq Participants(raffles, b) \cup {c.id}
            /\ Participants(raffles, b) \subseteq Participants(r, b)
            /\ Participants(r, b) # Participants(raffles, b)
                => /\ IsActive(raffles, b) /\ IsOpen(raffles, b)
                   /\ c.vip \/ c.subscriber \/ c.moderator \/ c.broadcaster
                   /\ c.id # BOT_ID
            /\ ~(c.vip \/ c.subscriber \/ c.moderator \/ c.broadcaster)
                => Cardinality(Participants(r, b)) = Cardinality(Participants(raffles, b))

\* An enter command has been accepted: the caller is in and the row is saved.
EnterAcceptedWitness ==
    /\ last.cmd = "enter"
    /\ calls = <<Call("upsert", 1, TRUE)>>
    /\ Participants(raffles, 1) # {}
    /\ IsOpen(raffles, 1)

AlreadyJoined(name) ==
    <<Message("reply", "{display_name}, you have already joined.", name, -1, "")>>

\* An enter in channel 1 by an eligible chatter other than the bot, twice
\* over: the second enter, under whatever name and roles, is answered
\* "already joined" and changes neither the store nor the table.
SecondEnterRejected ==
    \A c1, c2 \in RenamingChatters :
        (/\ c1.id = c2.id /\ c1.id # BOT_ID
         /\ c1.vip \/ c1.subscriber \/ c1.moderator \/ c1.broadcaster
         /\ c2.vip \/ c2.subscriber \/ c2.moderator \/ c2.broadcaster
         /\ IsOpen(raffles, 1) /\ IsActive(raffles, 1))
        => LET r1 == join_raffle(raffles, db, Context(c1, 1), TRUE)
               r2 == join_raffle(r1.raffles, r1.db, Context(c2, 1), TRUE)
           IN  /\ c1.id \in Participants(r1.raffles, 1)
               /\ r2.raffles = r1.raffles
               /\ r2.db = r1.db
               /\ r2.calls = <<>>
               /\ \E n \in EffectiveNames(c2.id) : r2.out = AlreadyJoined(n)

\* C5: along every sequence of add_participant calls on a RaffleState, a call
\* returns true exactly when its user_id was not offered before, a call that
\* returns true adds that user_id and no other, a call that returns false
\* leaves the state as it was, and the participant count never exceeds the
\* number of distinct user_ids offered; an enter repeated on an open raffle
\* is rejected and changes nothing.
JoinIdempotent ==
    /\ [](Cardinality(raffles[1].participants) <= Cardinality(offered))
    /\ []SecondEnterRejected
    /\ [][last'.cmd = "add_participant"
            => /\ last'.ret = (last'.user_id \notin offered)
               /\ last'.ret
                    => raffles'[1].participants = raffles[1].participants \cup {last'.user_id}
               /\ ~last'.ret => raffles' = raffles]_vars

\* A repeated add_participant has returned false, after two ids were offered.
JoinIdempotentWitness ==
    /\ last.cmd = "add_participant"
    /\ ~last.ret
    /\ last.user_id \in raffles[1].participants
    /\ Cardinality(offered) = 2
    /\ Cardinality(raffles[1].participants) = 2

\* C6: in every reachable state, a draw (whoever secrets.choice picks, and
\* also with no participant) and a cancel by a moderator or the broadcaster
\* on an active raffle, open or closed, leave the raffle not active, not
\* open and without participants.
DrawAndCancelReset ==
    \A ctx \in RoleContexts(Broadcasters), ok \in BOOLEAN :
        LET b == ctx.broadcaster.id
            IsReset(rs) == /\ b \in DOMAIN rs
                           /\ ~rs[b].is_active
                           /\ ~rs[b].is_open
                           /\ rs[b].participants = {}
                           /\ rs[b].participant_names = <<>>
        IN  ((ctx.chatter.moderator \/ ctx.chatter.broadcaster) /\ IsActive(raffles, b))
            => /\ IsReset(cancel_raffle(raffles, db, ctx, ok).raffles)
               /\ \A winner_id \in Choices(raffles[b]) :
                    IsReset(draw_winner_command(raffles, db, ctx, winner_id, ok).raffles)

\* A draw on an open raffle that nobody entered has reset it.
DrawAndCancelResetWitness ==
    /\ last.cmd = "draw"
    /\ out = <<Send("Entries closed."), Send("No one entered the raffle.")>>
    /\ 1 \in DOMAIN raffles
    /\ ~IsActive(raffles, 1) /\ ~IsOpen(raffles, 1)
    /\ Participants(raffles, 1) = {}

\* C7: for the RaffleState of every reachable state, draw_winner returns None
\* exactly when there is no participant; with participants it returns, for
\* whichever participant is picked, the name participant_names holds for a
\* participant, never "Unknown"; and it leaves the state as it was.
DrawWinnerReturnsEntrantName ==
    \A b \in DOMAIN raffles :
        \A winner_id \in Choices(raffles[b]) :
            LET s == raffles[b]
                r == draw_winner(s, winner_id)
            IN  /\ (r.ret = None) = (s.participants = {})
                /\ s.participants # {}
                    => /\ \E i \in DOMAIN s.participant_names :
                            /\ s.participant_names[i][1] \in s.participants
                            /\ s.participant_names[i][2] = r.ret
                       /\ r.ret # "Unknown"
                /\ r.state = s

\* A draw has announced the login name of an entrant without display name
\* and deleted the row.
DrawWinnerWitness ==
    /\ last.cmd = "draw"
    /\ \E i \in DOMAIN out :
        /\ out[i].text = "The winner is @{winner} !! Congratulations!"
        /\ out[i].name = LoginName(2)
    /\ calls = <<Call("delete", 1, TRUE)>>

\* The flags and participants of every channel are the same in stores rs1, rs2.
SameRaffles(rs1, rs2) ==
    \A b \in Broadcasters :
        /\ IsActive(rs1, b) = IsActive(rs2, b)
        /\ IsOpen(rs1, b) = IsOpen(rs2, b)
        /\ Participants(rs1, b) = Participants(rs2, b)

\* Result r changes no raffle, makes no persistence call, and its only chat
\* output is one reply to the caller.
RejectedQuietly(r) ==
    /\ SameRaffles(r.raffles, raffles)
    /\ r.db = db
    /\ r.calls = <<>>
    /\ Len(r.out) = 1
    /\ r.out[1].kind = "reply"

\* C8: in every reachable state, a start, end, draw or cancel by a caller who
\* is neither moderator nor broadcaster, a start while the raffle is active,
\* an end, draw or cancel while it is not active, an end while it is closed,
\* and an enter (by a chatter other than the bot, whose enter is dropped
\* before the state is looked at) while it is not active or closed, each
\* leave is_active, is_open and participants of every channel as they were,
\* make no upsert and no delete, and output exactly one reply and no
\* broadcast.
RejectionsChangeNothing ==
    /\ \A ctx \in RoleContexts(Broadcasters), ok \in BOOLEAN :
        LET b == ctx.broadcaster.id
            manage == ctx.chatter.moderator \/ ctx.chatter.broadcaster
            active == IsActive(raffles, b)
            open == IsOpen(raffles, b)
        IN  /\ (~manage \/ active)
                => RejectedQuietly(start_raffle(raffles, db, ctx, ok))
            /\ (~manage \/ ~active \/ ~open)
                => RejectedQuietly(end_raffle(raffles, db, ctx, ok))
            /\ (~manage \/ ~active)
                => /\ RejectedQuietly(cancel_raffle(raffles, db, ctx, ok))
                   /\ \A winner_id \in Choices(get_raffle(raffles, b)[b]) :
                        RejectedQuietly(draw_winner_command(raffles, db, ctx, winner_id, ok))
    /\ \A ctx \in Contexts, ok \in BOOLEAN :
        LET b == ctx.broadcaster.id
        IN  (ctx.chatter.id # BOT_ID /\ (~IsActive(raffles, b) \/ ~IsOpen(raffles, b)))
            => RejectedQuietly(join_raffle(raffles, db, ctx, ok))

\* A draw in channel 1, where no raffle is active, has been rejected while
\* the raffle of channel 2 stays open with its entrant.
RejectionWitness ==
    /\ last = [cmd |-> "draw", broadcaster_id |-> 1]
    /\ out = Rejected("No raffle active. Start one with !startraffle")
    /\ calls = <<>>
    /\ IsOpen(raffles, 2)
    /\ Participants(raffles, 2) # {}
    /\ 2 \in DOMAIN db

\* In every reachable state: an end by a moderator or the broadcaster on an
\* open raffle closes it and keeps its participants; on a closed raffle no
\* enter adds anyone (a chatter other than the bot is told entries are
\* closed) and an end is answered "already closed".
ClosedStaysClosed ==
    /\ \A ctx \in RoleContexts(Broadcasters), ok \in BOOLEAN :
        LET b == ctx.broadcaster.id
            manage == ctx.chatter.moderator \/ ctx.chatter.broadcaster
            ended == end_raffle(raffles, db, ctx, ok)
        IN  /\ (manage /\ IsActive(raffles, b) /\ IsOpen(raffles, b))
                => /\ IsActive(ended.raffles, b)
                   /\ ~IsOpen(ended.raffles, b)
                   /\ ended.raffles[b].participants = raffles[b].participants
                   /\ ended.raffles[b].participant_names = raffles[b].participant_names
            /\ (manage /\ IsActive(raffles, b) /\ ~IsOpen(raffles, b))
                => /\ ended.raffles = raffles
                   /\ ended.calls = <<>>
                   /\ ended.out = Rejected("Entries are already closed. Use !draw to pick a winner.")
    /\ \A ctx \in Contexts, ok \in BOOLEAN :
        LET b == ctx.broadcaster.id
            joined == join_raffle(raffles, db, ctx, ok)
        IN  (IsActive(raffles, b) /\ ~IsOpen(raffles, b))
            => /\ joined.raffles = raffles
               /\ joined.calls = <<>>
               /\ joined.out = IF ctx.chatter.id = BOT_ID
                               THEN <<>>
                               ELSE Rejected("Raffle entries are closed.")

PersistenceFailureInvisible ==
    LET Same(good, bad) ==
            /\ bad.raffles = good.raffles
            /\ bad.out = good.out
            /\ Len(bad.calls) = Len(good.calls)
            /\ bad.calls # <<>> => (~bad.calls[1].ok /\ bad.db = db)
    IN
    /\ \A ctx \in Contexts :
        Same(join_raffle(raffles, db, ctx, TRUE), join_raffle(raffles, db, ctx, FALSE))
    /\ \A ctx \in RoleContexts(Broadcasters) :
        LET b == ctx.broadcaster.id
        IN  /\ Same(start_raffle(raffles, db, ctx, TRUE), start_raffle(raffles, db, ctx, FALSE))
            /\ Same(end_raffle(raffles, db, ctx, TRUE), end_raffle(raffles, db, ctx, FALSE))
            /\ Same(cancel_raffle(raffles, db, ctx, TRUE), cancel_raffle(raffles, db, ctx, FALSE))
            /\ \A winner_id \in Choices(get_raffle(raffles, b)[b]) :
                Same(draw_winner_command(raffles, db, ctx, winner_id, TRUE),
                     draw_winner_command(raffles, db, ctx, winner_id, FALSE))

\* The upsert of an end has failed: entries are closed in the store and
\* announced closed in chat, while the row in the table is still open.
PersistenceFailureWitness ==
    /\ last = [cmd |-> "endraffle", broadcaster_id |-> 1]
    /\ calls = <<Call("upsert", 1, FALSE)>>
    /\ Len(out) = 1 /\ out[1].kind = "send" /\ out[1].count = 1
    /\ IsActive(raffles, 1) /\ ~IsOpen(raffles, 1)
    /\ 1 \in DOMAIN db /\ db[1].is_open

\* The persisted participants of a row, as pairs of id and display name.
RowParticipants(row) ==
    {<<row.participants[i].user_id, row.participants[i].display_name>> :
        i \in DOMAIN row.participants}

\* The participants of a RaffleState, as pairs of id and display name.
NamedParticipants(s) ==
    {<<u, DictGet(s.participant_names, u, None)>> : u \in s.participants}

\* C11: when handlers run one at a time and no persistence call fails,
\* after each command the table holds a row for a broadcaster exactly when
\* its raffle in memory is active, the row carries the same is_active, the
\* same is_open and the same participants with their display names, and a
\* restart followed by load_all_active_raffles reconstructs every active
\* raffle exactly as it was.
TableMirrorsMemory ==
    /\ \A b \in Broadcasters : b \in DOMAIN db <=> IsActive(raffles, b)
    /\ \A b \in DOMAIN db :
          /\ db[b].broadcaster_id = b
          /\ db[b].is_active = raffles[b].is_active
          /\ db[b].is_open = raffles[b].is_open
          /\ RowParticipants(db[b]) = NamedParticipants(raffles[b])
          /\ Len(db[b].participants) = Cardinality(raffles[b].participants)
    /\ LET loaded == load_all_active_raffles(db, TRUE)
       IN  /\ DOMAIN loaded = {b \in Broadcasters : IsActive(raffles, b)}
           /\ \A b \in DOMAIN loaded : loaded[b] = raffles[b]

\* After an end with two entrants in channel 1 and an enter in the open
\* raffle of channel 2, a restart has loaded both raffles.
TableMirrorsMemoryWitness ==
    /\ last.cmd = "restart"
    /\ IsActive(raffles, 1) /\ ~IsOpen(raffles, 1)
    /\ Cardinality(Participants(raffles, 1)) = 2
    /\ IsOpen(raffles, 2)
    /\ Cardinality(Participants(raffles, 2)) = 1
    /\ DOMAIN db = {1, 2}

\* The last command was a draw or a cancel that concluded the raffle: both
\* make their one persistence call, the delete, on the accepted path only.
Concluded == last.cmd \in {"draw", "cancelraffle"} /\ calls # <<>>

EnterName(ctx) ==
    IF Truthy(ctx.chatter.display_name)
    THEN ctx.chatter.display_name
    ELSE ctx.chatter.name

\* An enter of ctx that passes every precondition in the current state.
EnterPasses(ctx) ==
    /\ ctx.chatter.id # BOT_ID
    /\ IsOpen(raffles, ctx.broadcaster.id)
    /\ is_eligible(ctx.chatter)

\* C13 as stated: participant_names holds the last-known display name:
\* after an enter command on an Open raffle, and so after any sequence of
\* them, participant_names[u] is the name carried by u's most recent enter.
LastKnownDisplayName ==
    \A ctx \in Contexts, ok \in Outcomes :
        EnterPasses(ctx) =>
            LET r == join_raffle(raffles, db, ctx, ok)
            IN  DictGet(r.raffles[ctx.broadcaster.id].participant_names,
                        ctx.chatter.id, None) = EnterName(ctx)

\* C13, amended: participant_names holds the first-known display name:
\* after an enter command on an Open raffle, participant_names[u] is the
\* name carried by the enter that added u to this raffle; an enter of a user
\* who is already a participant leaves the recorded name as it was.
FirstKnownDisplayName ==
    \A ctx \in Contexts, ok \in Outcomes :
        EnterPasses(ctx) =>
            LET b == ctx.broadcaster.id
                u == ctx.chatter.id
                r == join_raffle(raffles, db, ctx, ok)
            IN  /\ u \in r.raffles[b].participants
                /\ DictGet(r.raffles[b].participant_names, u, None) =
                       IF u \in raffles[b].participants
                       THEN DictGet(raffles[b].participant_names, u, None)
                       ELSE EnterName(ctx)

\* User 1 entered under the login name and entered again under a display
\* name: the recorded name is still the login name.
FirstKnownDisplayNameWitness ==
    /\ last.cmd = "enter"
    /\ out = AlreadyJoined("Disp1")
    /\ IsOpen(raffles, 1)
    /\ DictGet(raffles[1].participant_names, 1, None) = LoginName(1)

\* C14 as stated: every enter command that passes all preconditions
\* produces a reply to the caller: a success reply when the caller was newly
\* added, the "already joined" reply when the caller was a participant.
EnterAlwaysReplies ==
    \A ctx \in Contexts, ok \in Outcomes :
        EnterPasses(ctx) =>
            LET r == join_raffle(raffles, db, ctx, ok)
            IN  /\ Len(r.out) = 1
                /\ r.out[1].kind = "reply"
                /\ (ctx.chatter.id \in Participants(raffles, ctx.broadcaster.id))
                       <=> (r.out = AlreadyJoined(EnterName(ctx)))

\* An eligible user who was no participant has entered an open raffle: the
\* user is a participant, the row is saved, and nothing was said in chat.
EnterAcceptedSilentlyWitness ==
    /\ last.cmd = "enter"
    /\ calls = <<Call("upsert", 1, TRUE)>>
    /\ Cardinality(Participants(raffles, 1)) = 1
    /\ out = <<>>

\* C15: the count in the end broadcast and in the cancel broadcast is the
\* number of participants when the command is handled (for cancel, before
\* the reset), and the wording is singular exactly when the count is 1 and
\* plural for every other count, 0 included.
CountAndWording ==
    \A ctx \in RoleContexts(Broadcasters), ok \in Outcomes :
        LET b == ctx.broadcaster.id
            n == Cardinality(Participants(raffles, b))
        IN  /\ (can_manage(ctx.chatter) /\ IsOpen(raffles, b)) =>
                   end_raffle(raffles, db, ctx, ok).out =
                       <<[kind |-> "send",
                          text |-> "Entries closed. {count} participant{s} entered.",
                          name |-> None, count |-> n,
                          suffix |-> IF n = 1 THEN "" ELSE "s"]>>
            /\ (can_manage(ctx.chatter) /\ IsActive(raffles, b)) =>
                   LET r == cancel_raffle(raffles, db, ctx, ok)
                   IN  /\ r.out =
                           <<[kind |-> "send",
                              text |-> "Raffle cancelled. {count} participant{s were} entered.",
                              name |-> None, count |-> n,
                              suffix |-> IF n = 1 THEN " was" ELSE "s were"]>>
                       /\ Participants(r.raffles, b) = {}

\* An end of a raffle nobody entered has broadcast "0 participants".
CountAndWordingWitness ==
    /\ last.cmd = "endraffle"
    /\ Len(out) = 1 /\ out[1].kind = "send"
    /\ out[1].count = 0 /\ out[1].suffix = "s"
    /\ IsActive(raffles, 1) /\ ~IsOpen(raffles, 1)

\* The texts of the two result broadcasts of a draw.
ResultTexts ==
    {"The winner is @{winner} !! Congratulations!", "No one entered the raffle."}

\* The number of result broadcasts in the messages o.
Results(o) == Cardinality({i \in DOMAIN o : o[i].kind = "send" /\ o[i].text \in ResultTexts})

AtMostOneResult == announced <= 1

\* Two draw handlers, both suspended in their result broadcast, have each
\* announced a winner of the same raffle.
TwoWinnersAnnouncedWitness ==
    /\ announced = 2
    /\ \A i \in {1, 2} : tasks[i].pc = "announcing" /\ tasks[i].epoch = epoch
    /\ Participants(raffles, 1) # {}
    /\ Len(out) = 1 /\ out[1].text = "The winner is @{winner} !! Congratulations!"

\* C18 as stated: under that interleaving, the reset and the delete at the
\* end of a draw handler only clear the raffle the handler drew from: they
\* never clear a raffle that was started, nor discard a participant that
\* was accepted, after the handler picked its winner.
DrawClearsOnlyItsRaffle ==
    [][\A i \in Tasks :
          (tasks[i].pc = "announcing" /\ tasks'[i].pc = "idle") =>
              ~(epoch > tasks[i].epoch /\
                (IsActive(raffles, tasks[i].broadcaster_id) \/
                 Participants(raffles, tasks[i].broadcaster_id) # {}))]_vars

\* A draw handler that picked its winner in the first raffle is still
\* suspended while the second raffle is open and has a participant.
StaleDrawWitness ==
    /\ tasks[1].pc = "announcing" /\ tasks[1].epoch = 1
    /\ epoch = 2
    /\ IsOpen(raffles, 1)
    /\ Participants(raffles, 1) # {}
    /\ 1 \in DOMAIN db

\* Interleaved or not, the segments of a draw handler that no other handler
\* interrupts are the draw handler.
DrawSegmentsCompose ==
    \A ctx \in RoleContexts(OneChannel) :
        LET b == ctx.broadcaster.id
            begun == draw_begin(raffles, ctx)
        IN  \A winner_id \in Choices(get_raffle(raffles, b)[b]) :
                LET whole == draw_winner_command(raffles, db, ctx, winner_id, TRUE)
                    finished == draw_finish(begun.raffles, db, b, TRUE)
                IN  IF begun.pc = "idle"
                    THEN whole = Result(begun.raffles, db, begun.out, <<>>)
                    ELSE whole = Result(finished.raffles, finished.db,
                                        begun.out \o draw_select(begun.raffles, b, winner_id),
                                        finished.calls)

\* Stores rs1, rs2 and tables d1, d2 agree on broadcaster b: the same
\* RaffleState, or none in both, and the same row, or none in both.
SameFor(b, rs1, d1, rs2, d2) ==
    /\ (b \in DOMAIN rs1) = (b \in DOMAIN rs2)
    /\ b \in DOMAIN rs1 => rs1[b] = rs2[b]
    /\ (b \in DOMAIN d1) = (b \in DOMAIN d2)
    /\ b \in DOMAIN d1 => d1[b] = d2[b]

\* Result r of a command in channel a leaves every other channel as it is.
OthersUnchanged(a, r) ==
    \A b \in Broadcasters \ {a} : SameFor(b, raffles, db, r.raffles, r.db)

\* C19: raffles of different broadcasters are independent: any command
\* handled in the channel of broadcaster A leaves the RaffleState and the
\* persisted row of every other broadcaster B unchanged, and get_raffle
\* hands out for each broadcaster id the store's own entry for that id,
\* never the entry of another id.
ChannelsIndependent ==
    /\ \A ctx \in RoleContexts(Broadcasters) :
          LET a == ctx.broadcaster.id
          IN  /\ OthersUnchanged(a, start_raffle(raffles, db, ctx, TRUE))
              /\ OthersUnchanged(a, end_raffle(raffles, db, ctx, TRUE))
              /\ OthersUnchanged(a, cancel_raffle(raffles, db, ctx, TRUE))
              /\ OthersUnchanged(a, show_participants(raffles, db, ctx))
              /\ OthersUnchanged(a, raffle_help(raffles, db, ctx))
              /\ \A winner_id \in Choices(get_raffle(raffles, a)[a]) :
                    OthersUnchanged(a, draw_winner_command(raffles, db, ctx, winner_id, TRUE))
    /\ \A c \in Chatters, a \in Broadcasters :
          OthersUnchanged(a, join_raffle(raffles, db, Context(c, a), TRUE))
    /\ \A a \in Broadcasters :
          LET rs1 == get_raffle(raffles, a)
          IN  /\ a \in DOMAIN rs1
              /\ a \in DOMAIN raffles => rs1[a] = raffles[a]
              /\ \A b \in Broadcasters \ {a} : SameFor(b, raffles, db, rs1, db)

\* A draw in channel 2 has reset its raffle and deleted its row while the
\* open raffle of channel 1 keeps its two participants and its row.
ChannelsIndependentWitness ==
    /\ last = [cmd |-> "draw", broadcaster_id |-> 2]
    /\ calls = <<Call("delete", 2, TRUE)>>
    /\ ~IsActive(raffles, 2)
    /\ IsOpen(raffles, 1)
    /\ Cardinality(Participants(raffles, 1)) = 2
    /\ DOMAIN db = {1}
    /\ Len(db[1].participants) = 2

\* C20: to_db_format and from_db_format are a round trip: for every
\* RaffleState s whose participants are the keys of participant_names,
\* from_db_format(to_db_format(s)) has the same is_active, is_open,
\* participants and participant_names as s; the state loaded from a row is
\* always such a state.
FormatRoundTrip ==
    /\ LET s == raffles[1]
           t == from_db_format(to_db_format(s))
       IN  s.participants = DictKeys(s.participant_names) =>
               /\ t.is_active = s.is_active
               /\ t.is_open = s.is_open
               /\ t.participants = s.participants
               /\ t.participant_names = s.participant_names
    /\ last.cmd = "from_db_format" =>
           /\ raffles[1].participants = DictKeys(raffles[1].participant_names)
           /\ to_db_format(raffles[1]) = db[1]

\* A state that is open and not active, with two participants in the order
\* 2, 1, has been converted to a row and back.
FormatRoundTripWitness ==
    /\ last.cmd = "from_db_format"
    /\ raffles[1].is_open /\ ~raffles[1].is_active
    /\ raffles[1].participants = {1, 2}
    /\ raffles[1].participant_names = <<<<2, LoginName(2)>>, <<1, "Disp1">>>>
    /\ Len(db[1].participants) = 2

====
